---- MODULE Spec2Model ----
(***************************************************************************)
(* Waveform block reading and decoding of src/lib/dso_basic.py             *)
(* (DsoBasic.get_waveform_num) and of the NTSC example                     *)
(* src/MPO_Examples/ntsc_waveform2image/ntsc_waveform2image.py             *)
(* (get_acqdata2, search_ntsc_sync_edge, the field reassembly of __main__).*)
(*                                                                         *)
(* Bytes are the integers 0..255, byte strings are sequences of bytes.     *)
(* The instrument's replies are held in rx, the bytes the socket has still *)
(* to deliver. Once rx is empty the peer has either closed the connection  *)
(* (recv returns b'', from then on always) or stays silent (recv raises    *)
(* the timeout of the socket, 5 s, dso_basic.py:80).                       *)
(***************************************************************************)
EXTENDS Integers, Sequences, FiniteSets, TLC

VARIABLES
    \* ---- the call and the platform
    api,            \* "num": DsoBasic.get_waveform_num, "acq2": get_acqdata2
    ch_ok,          \* result of is_ch_support(ch)
    real_value,     \* argument of get_waveform_num
    pos_consider,   \* argument of get_waveform_num
    num,            \* argument of get_acqdata2 (points wanted)
    micropython,    \* DsoBasic.__micropython (sys.implementation.name)
    \* ---- the socket
    wire,           \* the reply m the instrument sends and how much of it arrives
    rx,             \* bytes not yet delivered by recv
    eof,            \* a recv has returned b'': the peer has closed the connection
    \* ---- the reader
    pc,             \* position of the call
    info,           \* get_waveform_num: dict parsed from the header line
    head_d,         \* digit count read after '#'
    lenbuf,         \* the bytes read as the length field (length / buf)
    length,         \* body bytes to read (declared length + 1)
    cnt,            \* body bytes counted so far
    data,           \* body bytes kept so far (data / buf)
    data_out,       \* the decoded samples (the call's result when pc = "done")
    err,            \* the exception that ended the call, "none" if none
    \* ---- the frame reconstruction of ntsc_waveform2image.py
    acq,            \* the acquisition: samples, channel and trigger settings
    dataLen,        \* len(data)
    written,        \* the cells of data assigned so far, index :> value
    line,           \* i of the two field loops (the line)
    px,             \* j of the inner loops (the pixel)
    index,          \* index of the first sample of the line
    dest_index,     \* next cell of data to be assigned
    offset,         \* result of search_ntsc_sync_edge
    ref,            \* search_ntsc_sync_edge: trig_level_crossing_ref
    si,             \* search_ntsc_sync_edge: its loop counter i
    printed,        \* what search_ntsc_sync_edge has printed
    \* ---- the rest of __main__: the wait for the acquisition and the drawing
    poll_j,         \* j of the loop that waits for the acquisition
    val_min,        \* min(data)
    val_max,        \* max(data)
    canvas,         \* the pixels set so far, <<x, y>> :> index of the colour
    set_px_calls,   \* number of calls of gui.canvas.set_px
    \* ---- the query that follows a waveform fetch
    answer,         \* what readline returns to it
    \* ---- the keys: DsoBasic.get_key and the thread __dso_key_shm
    key_flag,       \* self.key_flag
    key_code,       \* self.key_code
    key_cnt,        \* self.key_cnt
    shm,            \* the file /dev/shm/upy/shm_key: its bytes, <<>> if absent
    t_pc,           \* position of the thread
    message,        \* the thread's message
    t_i,            \* the thread's i
    flag,           \* the thread's flag
    t_tmp,          \* the thread's operand stack: the value about to be stored
    g_pc,           \* position of the main program in get_key
    key_out,        \* get_key's key_out
    key_cnt_out,    \* get_key's key_cnt_out
    accepted,       \* the (code, count) pairs of the messages the thread has read
    returned        \* the results of get_key other than (0, 0), in order

blockVars == <<api, ch_ok, real_value, pos_consider, num, micropython, wire, rx,
               eof, pc, info, head_d, lenbuf, length, cnt, data,
               data_out, err>>

drawVars == <<poll_j, val_min, val_max, canvas, set_px_calls>>

keyVars == <<key_flag, key_code, key_cnt, shm, t_pc, message, t_i, flag, t_tmp, g_pc,
             key_out, key_cnt_out, accepted, returned>>

ntscVars == <<acq, dataLen, written, line, px, index, dest_index, offset, ref, si,
              printed, drawVars>>

vars == <<blockVars, ntscVars, answer, keyVars>>

----------------------------------------------------------------------------
(* Bounds of the model *)

\* longest payload (bytes before the terminator) the instrument sends
MaxBody == 4
\* largest number of points asked of get_acqdata2
MaxNum == 3

(* Program constants *)
HASH == 35          \* b'#'
LF == 10            \* b'\n'
RecvChunk == 8192   \* recv(8192)

\* the bytes a faulty framing holds: neither digit, '#', white space nor sign
FaultBytes == {120}
\* payload byte values: 0x00 and 0xFF give the words 0, 255, -256 and -1
PayloadBytes == {0, 255}

----------------------------------------------------------------------------
(* Byte strings *)

Take(s, k) == SubSeq(s, 1, k)
Drop(s, k) == SubSeq(s, k + 1, Len(s))
Min(a, b) == IF a < b THEN a ELSE b

\* all sequences over S of length 0..n
SeqsUpTo(S, n) == UNION {[1..k -> S] : k \in 0..n}

IsDigit(b) == b \in 48..57
\* str.isspace() for the ASCII range
IsSpace(b) == b \in {9, 10, 11, 12, 13, 32}

RECURSIVE LStrip(_)
LStrip(s) == IF s # <<>> /\ IsSpace(Head(s)) THEN LStrip(Tail(s)) ELSE s
RECURSIVE RStrip(_)
RStrip(s) ==
    IF s # <<>> /\ IsSpace(s[Len(s)]) THEN RStrip(Take(s, Len(s) - 1)) ELSE s

RECURSIVE DigitsValue(_)
DigitsValue(s) ==
    IF s = <<>> THEN 0 ELSE 10 * DigitsValue(Take(s, Len(s) - 1)) + (s[Len(s)] - 48)

\* bytes.decode('utf-8') succeeds on ASCII; a lone byte >= 0x80 is an error
DecodeOk(s) == \A i \in 1..Len(s) : s[i] < 128

\* int(str): white space stripped, an optional sign, then decimal digits.
\* ok = FALSE stands for the ValueError (or UnicodeDecodeError) raised.
ParseInt(s) ==
    LET t == RStrip(LStrip(s))
        signed == t # <<>> /\ t[1] \in {43, 45}
        d == IF signed THEN Tail(t) ELSE t
        good == DecodeOk(s) /\ d # <<>> /\ \A i \in 1..Len(d) : IsDigit(d[i])
    IN  [ok |-> good,
         val |-> IF ~good THEN 0
                 ELSE IF signed /\ t[1] = 45 THEN 0 - DigitsValue(d)
                 ELSE DigitsValue(d)]

\* float(str) of the header fields; the model sends integer-valued fields
ParseFloat(s) == ParseInt(s)

\* int(a / b) of Python for b > 0: the quotient truncated towards zero
TruncDiv(a, b) == IF a >= 0 THEN a \div b ELSE 0 - ((0 - a) \div b)

\* str.split(sep): the pieces between the separators, at least one piece
Split(s, sep) ==
    LET RECURSIVE f(_, _, _)
        f(i, cur, acc) ==
            IF i > Len(s) THEN Append(acc, cur)
            ELSE IF s[i] = sep THEN f(i + 1, <<>>, Append(acc, cur))
            ELSE f(i + 1, Append(cur, s[i]), acc)
    IN  f(1, <<>>, <<>>)

\* index of the first b in s, 0 if there is none
FirstIndex(s, b) ==
    IF \E i \in 1..Len(s) : s[i] = b
    THEN CHOOSE i \in 1..Len(s) : s[i] = b /\ \A j \in 1..(i - 1) : s[j] # b
    ELSE 0

\* the decimal digits of n, padded with zeros to width w
RECURSIVE Dec(_, _)
Dec(n, w) == IF w = 0 THEN <<>> ELSE Append(Dec(n \div 10, w - 1), 48 + (n % 10))

----------------------------------------------------------------------------
(* What the instrument sends *)

COMMA == 44         \* ','
SEMI == 59          \* ';'

KeyMemoryLength == <<77, 101, 109, 111, 114, 121, 32, 76, 101, 110, 103, 116, 104>>
KeyVerticalScale == <<86, 101, 114, 116, 105, 99, 97, 108, 32, 83, 99, 97, 108, 101>>
KeyVerticalPosition == <<86, 101, 114, 116, 105, 99, 97, 108, 32, 80, 111, 115, 105, 116, 105, 111, 110>>
TextWaveformData == <<87, 97, 118, 101, 102, 111, 114, 109, 32, 68, 97, 116, 97>>
TextON == <<79, 78>>
TextOFF == <<79, 70, 70>>

\* the text of the integer v: a '-' if negative, one or two digits
Num(v) ==
    LET a == IF v < 0 THEN 0 - v ELSE v
    IN  (IF v < 0 THEN <<45>> ELSE <<>>) \o Dec(a, IF a < 10 THEN 1 ELSE 2)

\* the header line of a waveform of n points: key,value groups closed by ';',
\* a last group without a value, and the line feed
HeaderLine(n, scale, pos) ==
    KeyMemoryLength \o <<COMMA>> \o Num(n) \o <<SEMI>>
    \o KeyVerticalScale \o <<COMMA>> \o Num(scale) \o <<SEMI>>
    \o KeyVerticalPosition \o <<COMMA>> \o Num(pos) \o <<SEMI>>
    \o TextWaveformData \o <<SEMI, LF>>

\* the faults of a block's framing: none, a wrong first byte, a digit count
\* that is no digit, a length field whose first or last byte is no digit
NoFault == [at |-> "none", byte |-> 0]
Faults == {NoFault} \cup [at : {"mark", "head", "field1", "fieldN"}, byte : FaultBytes]

\* '#', the digit count w, the length of payload p in w digits
Framing(p, w, fault) ==
    LET f == Dec(Len(p), w)
        field == IF fault.at = "field1" THEN <<fault.byte>> \o Tail(f)
                 ELSE IF fault.at = "fieldN" THEN Take(f, w - 1) \o <<fault.byte>>
                 ELSE f
    IN  <<IF fault.at = "mark" THEN fault.byte ELSE HASH>>
        \o <<IF fault.at = "head" THEN fault.byte ELSE 48 + w>>
        \o field

\* what the instrument sends for one call: the reply to ':header?' (reply,
\* get_waveform_num only), then for the waveform query the header line, the
\* framing, the payload and the terminator
Reply(p, w, fault, reply) ==
    [reply |-> reply,
     header |-> HeaderLine(Len(p) \div 2, 2, 1),
     framing |-> Framing(p, w, fault),
     payload |-> p,
     fault |-> fault]

WireBytes(m) == m.reply \o m.header \o m.framing \o m.payload \o <<LF>>
\* bytes of m before the block's body
PreambleLen(m) == Len(m.reply) + Len(m.header) + Len(m.framing)

Payloads == SeqsUpTo(PayloadBytes, MaxBody)
\* the payloads of the replies that are faulty or cut short
ZeroPayloads == SeqsUpTo({0}, MaxBody)

\* what arrives: every payload in a sound framing and whole; a faulty framing
\* (whole) or a sound reply cut anywhere from the end of the header line on,
\* for one payload of each length. arrived is the number of bytes that arrive.
Wires(reply) ==
    {[m |-> Reply(p, w, NoFault, reply), arrived |-> Len(WireBytes(Reply(p, w, NoFault, reply)))] :
        p \in Payloads, w \in 1..2}
    \cup {[m |-> Reply(p, w, f, reply), arrived |-> Len(WireBytes(Reply(p, w, f, reply)))] :
        p \in ZeroPayloads, w \in 1..2, f \in Faults \ {NoFault}}
    \cup UNION {{[m |-> Reply(p, w, NoFault, reply), arrived |-> k] :
                    k \in (PreambleLen(Reply(p, w, NoFault, reply)) - w - 3)
                          ..(Len(WireBytes(Reply(p, w, NoFault, reply))) - 1)} :
                p \in ZeroPayloads, w \in 1..2}

\* the calls: get_waveform_num(ch, real_value, pos_consider) on a supported
\* channel and get_acqdata2(1, n)
Calls ==
    {[api |-> "num", ch_ok |-> TRUE, real_value |-> r, pos_consider |-> c, num |-> 0] :
        r \in BOOLEAN, c \in BOOLEAN}
    \cup {[api |-> "acq2", ch_ok |-> TRUE, real_value |-> FALSE, pos_consider |-> FALSE,
           num |-> n] : n \in 1..MaxNum}

\* get_waveform_num on a channel the model does not support
BadChannelCall ==
    [api |-> "num", ch_ok |-> FALSE, real_value |-> TRUE, pos_consider |-> TRUE, num |-> 0]

\* get_waveform_num runs under CPython and under MicroPython (dso_basic.py
\* lines 31-35); get_acqdata2 is part of a script that imports lvgl (line 17)
\* and runs under the instrument's MicroPython only
InitBlock ==
    \E c \in Calls \cup {BadChannelCall},
       reply \in {TextON \o <<LF>>, TextOFF \o <<LF>>} :
      \E x \in Wires(IF c.api = "num" THEN reply ELSE <<>>) :
          /\ c.api = "acq2" => reply = TextON \o <<LF>>
          /\ ~c.ch_ok => x.m.payload = <<>> /\ x.arrived = Len(WireBytes(x.m))
          /\ api = c.api /\ ch_ok = c.ch_ok
          /\ real_value = c.real_value /\ pos_consider = c.pos_consider
          /\ num = c.num
          /\ micropython \in (IF c.api = "acq2" THEN {TRUE} ELSE BOOLEAN)
          /\ wire = x
          /\ rx = Take(WireBytes(x.m), x.arrived)
          /\ eof = FALSE
          /\ pc = "start"
          /\ info = <<>>
          /\ head_d = 0 /\ lenbuf = <<>> /\ length = 0 /\ cnt = 0
          /\ data = <<>> /\ data_out = <<>>
          /\ err = "none"

----------------------------------------------------------------------------
(* The socket *)

\* what a waveform fetch never changes: its arguments, the platform, what
\* the instrument sends, and the frame reconstruction
callVars == <<api, ch_ok, real_value, pos_consider, num, micropython, wire, ntscVars,
              answer, keyVars>>
readerVars == <<info, head_d, lenbuf, length, cnt, data, data_out>>

\* int(length) + 1 without the terminator
BodyLengthBare(declared) == declared

\* __read_block line 156, __read_block2 line 62: the body is the declared
\* number of bytes and one more
BodyLength(declared) == declared + 1

\* recv(n) on an empty connection that the peer has not closed blocks until
\* the timeout raises
TimedOut(n) == n > 0 /\ rx = <<>> /\ ~eof

\* the lengths recv(n) may return: any non-empty prefix of what is left, up
\* to n bytes; nothing once the peer has closed; nothing for recv(0)
RecvLens(n) == IF n = 0 \/ rx = <<>> THEN {0} ELSE 1..Min(n, Len(rx))

\* recv(n) returning k bytes
Recv(n, k) ==
    /\ k \in RecvLens(n)
    /\ rx' = Drop(rx, k)
    /\ eof' = (eof \/ (n > 0 /\ k = 0))

\* the exception caught and the script going on to trim and draw
RaiseCaught(e) == pc' = "trim" /\ err' = e

\* the call ends with exception e
Raise(e) == pc' = "error" /\ err' = e
Goto(l) == pc' = l /\ err' = err

----------------------------------------------------------------------------
(* struct.unpack and the waveform decoders *)

\* the word read low byte first
WordLittleEndian(hi, lo) ==
    LET u == lo * 256 + hi IN IF u >= 32768 THEN u - 65536 ELSE u

\* one big-endian two's-complement 16-bit word
Word(hi, lo) ==
    LET u == hi * 256 + lo IN IF u >= 32768 THEN u - 65536 ELSE u

\* struct.unpack('>{n}h', buf): CPython wants exactly 2n bytes (struct.error),
\* MicroPython at least 2n bytes (ValueError) and ignores the rest
Unpack(n, buf) ==
    LET fits == IF micropython THEN Len(buf) >= 2 * n ELSE Len(buf) = 2 * n
    IN  [ok |-> fits,
         val |-> IF fits THEN [i \in 1..n |-> Word(buf[2 * i - 1], buf[2 * i])]
                 ELSE <<>>]

\* data[0:-1], the bytes __read_block_waveform hands to struct.unpack
DecoderInput(d) == Take(d, Len(d) - 1)

\* dso_basic.py __read_block_waveform: int((len(data) - 1) / 2) words
\* unpacked from the body without its last byte
DecodeBlock(d) == Unpack(TruncDiv(Len(d) - 1, 2), DecoderInput(d))

\* the decoder refusing a buffer that is not whole words
DecodeBlock2Strict(b) ==
    [ok |-> Len(b) % 2 = 0,
     val |-> IF Len(b) % 2 = 0
             THEN [i \in 1..(Len(b) \div 2) |-> Word(b[2 * i - 1], b[2 * i])]
             ELSE <<>>]

\* ntsc_waveform2image.py __read_block_waveform2: the whole of buf
DecodeBlock2(b) == Unpack(Len(b) \div 2, b)

----------------------------------------------------------------------------
(* DsoBasic.get_waveform_num *)

\* the dict in which the first group to name a key keeps it
ParseHeaderKeepFirst(hdr) ==
    LET groups == Split(hdr, SEMI)
        RECURSIVE upd(_, _)
        upd(i, d) ==
            IF i > Len(groups) THEN d
            ELSE LET tmp == Split(groups[i], COMMA)
                 IN  IF Len(tmp) < 2 \/ tmp[1] \in DOMAIN d THEN upd(i + 1, d)
                     ELSE upd(i + 1, [k \in DOMAIN d \cup {tmp[1]} |->
                                         IF k = tmp[1] THEN tmp[2] ELSE d[k]])
    IN  upd(1, <<>>)

\* the dict built from the header line: each ';' group with two ',' fields
\* or more maps its first field to its second, later groups overwrite
ParseHeader(hdr) ==
    LET groups == Split(hdr, SEMI)
        RECURSIVE upd(_, _)
        upd(i, d) ==
            IF i > Len(groups) THEN d
            ELSE LET tmp == Split(groups[i], COMMA)
                 IN  IF Len(tmp) < 2 THEN upd(i + 1, d)
                     ELSE upd(i + 1,
                              [k \in DOMAIN d \cup {tmp[1]} |->
                                  IF k = tmp[1] THEN tmp[2] ELSE d[k]])
    IN  upd(1, <<>>)

\* lines 187-199: the channel check and the ':header?' query (readline)
GwnStart ==
    /\ api = "num" /\ pc = "start"
    /\ UNCHANGED <<callVars, readerVars>>
    /\ IF ~ch_ok
       THEN Goto("done") /\ UNCHANGED <<rx, eof>>
       ELSE LET at == FirstIndex(rx, LF) IN
            IF at > 0
            THEN Goto("header") /\ rx' = Drop(rx, at) /\ eof' = eof
            ELSE \* no line arrives: MicroPython's readline and CPython's
                 \* except clause (on the timeout) return what there is;
                 \* on a closed connection CPython's loop keeps reading b''
                 /\ rx' = <<>>
                 /\ \/ eof' = TRUE /\ IF micropython THEN Goto("header")
                                      ELSE UNCHANGED <<pc, err>>
                    \/ ~eof /\ eof' = eof /\ Goto("header")

\* lines 205-217: read up to the line feed one byte at a time, parse the line
GwnHeaderLoop ==
    /\ api = "num" /\ pc = "header"
    /\ UNCHANGED <<callVars, head_d, lenbuf, length, cnt, data, data_out>>
    /\ LET at == FirstIndex(rx, LF) IN
       IF at > 0
       THEN /\ rx' = Drop(rx, at) /\ eof' = eof
            /\ IF DecodeOk(Take(rx, at))
               THEN info' = ParseHeader(Take(rx, at)) /\ Goto("info")
               ELSE info' = info /\ Raise("UnicodeDecodeError")
       ELSE /\ rx' = <<>> /\ info' = info
            /\ \/ eof' = TRUE /\ UNCHANGED <<pc, err>>
               \/ ~eof /\ eof' = eof /\ Raise("timeout")

\* __read_block lines 151-152, 165-167 and line 171: without '#' the block is
\* None and len(None) raises
ReadBlockInfo ==
    /\ api = "num" /\ pc = "info"
    /\ UNCHANGED <<callVars, readerVars>>
    /\ \/ TimedOut(1) /\ Raise("timeout") /\ UNCHANGED <<rx, eof>>
       \/ \E k \in RecvLens(1) :
            /\ Recv(1, k)
            /\ IF Take(rx, k) = <<HASH>> THEN Goto("head") ELSE Raise("TypeError")

\* __read_block lines 153-154
ReadBlockHead ==
    /\ api = "num" /\ pc = "head"
    /\ UNCHANGED <<callVars, info, lenbuf, length, cnt, data, data_out>>
    /\ \/ TimedOut(1) /\ Raise("timeout") /\ UNCHANGED <<rx, eof, head_d>>
       \/ \E k \in RecvLens(1) :
            LET r == ParseInt(Take(rx, k)) IN
            /\ Recv(1, k)
            /\ IF r.ok THEN head_d' = r.val /\ Goto("length")
               ELSE head_d' = head_d /\ Raise("ValueError")

\* __read_block lines 155-158: one recv for the whole length field
ReadBlockLength ==
    /\ api = "num" /\ pc = "length"
    /\ UNCHANGED <<callVars, info, head_d, data, data_out>>
    /\ \/ TimedOut(head_d) /\ Raise("timeout") /\ UNCHANGED <<rx, eof, lenbuf, length, cnt>>
       \/ \E k \in RecvLens(head_d) :
            LET r == ParseInt(Take(rx, k)) IN
            /\ Recv(head_d, k)
            /\ lenbuf' = Take(rx, k)
            /\ cnt' = 0
            /\ IF r.ok THEN length' = BodyLength(r.val) /\ Goto("body")
               ELSE length' = length /\ Raise("ValueError")

\* __read_block lines 159-164: one turn of the loop
ReadBlockBody ==
    /\ api = "num" /\ pc = "body"
    /\ UNCHANGED <<callVars, info, head_d, lenbuf, length, data_out>>
    /\ \/ TimedOut(RecvChunk) /\ Raise("timeout") /\ UNCHANGED <<rx, eof, cnt, data>>
       \/ \E k \in RecvLens(RecvChunk) :
            /\ Recv(RecvChunk, k)
            /\ data' = data \o Take(rx, k)
            /\ cnt' = Len(data')
            /\ IF cnt' = length THEN Goto("decode") ELSE UNCHANGED <<pc, err>>

\* __read_block_waveform lines 170-174
ReadBlockWaveform ==
    /\ api = "num" /\ pc = "decode"
    /\ UNCHANGED <<callVars, info, head_d, lenbuf, length, cnt, data, rx, eof>>
    /\ LET r == DecodeBlock(data) IN
       IF r.ok THEN data_out' = r.val /\ Goto("post")
       ELSE data_out' = data_out /\ Raise("struct.error")

\* data_out[i] * tmp_s with tmp_s = vscale / 25. The values returned with
\* real_value are held in 25ths of the unit of vscale: raw * vscale.
ScaleReal(raw, vscale) == raw * vscale

\* an element the loop of line 234 has not reached, in the same 25ths
Unscaled(raw) == raw * 25

\* int(vpos / vscale * 25)
PosShift(vpos, vscale) == TruncDiv(vpos * 25, vscale)

\* the position shift taking precedence over the scaling
CorrectionShiftFirst(rv, pcons) ==
    IF pcons THEN "shift" ELSE IF rv THEN "scale" ELSE "none"

\* lines 232-242: if real_value ... else: if pos_consider ... else: pass
Correction(rv, pcons) ==
    IF rv THEN "scale" ELSE IF pcons THEN "shift" ELSE "none"

\* lines 225-244: the correction asked for, over range(wave_len)
GwnPost ==
    /\ api = "num" /\ pc = "post"
    /\ UNCHANGED <<callVars, info, head_d, lenbuf, length, cnt, data, rx, eof>>
    /\ LET has(k) == k \in DOMAIN info
           vscale == ParseFloat(info[KeyVerticalScale])
           vpos == ParseFloat(info[KeyVerticalPosition])
           wave_len == ParseInt(info[KeyMemoryLength])
           n == Len(data_out)
           which == Correction(real_value, pos_consider)
       IN  IF ~has(KeyVerticalScale) \/ ~has(KeyVerticalPosition) \/ ~has(KeyMemoryLength)
           THEN data_out' = data_out /\ Raise("KeyError")
           ELSE IF ~vscale.ok \/ ~vpos.ok \/ ~wave_len.ok
           THEN data_out' = data_out /\ Raise("ValueError")
           ELSE IF which = "scale"
           THEN /\ data_out' = [i \in 1..n |->
                        IF i <= wave_len.val THEN ScaleReal(data_out[i], vscale.val)
                        ELSE Unscaled(data_out[i])]
                /\ IF wave_len.val > n THEN Raise("IndexError") ELSE Goto("done")
           ELSE IF which = "shift"
           THEN IF vscale.val = 0
                THEN data_out' = data_out /\ Raise("ZeroDivisionError")
                ELSE /\ data_out' = [i \in 1..n |->
                             IF i <= wave_len.val
                             THEN data_out[i] + PosShift(vpos.val, vscale.val)
                             ELSE data_out[i]]
                     /\ IF wave_len.val > n THEN Raise("IndexError") ELSE Goto("done")
           ELSE data_out' = data_out /\ Goto("done")

----------------------------------------------------------------------------
(* get_acqdata2 of ntsc_waveform2image.py *)

\* lines 88-96: the header line is read byte by byte and dropped
Acq2HeaderLoop ==
    /\ api = "acq2" /\ pc = "start"
    /\ UNCHANGED <<callVars, readerVars>>
    /\ LET at == FirstIndex(rx, LF) IN
       IF at > 0
       THEN rx' = Drop(rx, at) /\ eof' = eof /\ Goto("info")
       ELSE /\ rx' = <<>>
            /\ \/ eof' = TRUE /\ UNCHANGED <<pc, err>>
               \/ ~eof /\ eof' = eof /\ Raise("timeout")

\* __read_block2 lines 48-50, 73-75: without '#', buf = None and
\* 'del buffer' raises, buffer never having been bound
ReadBlock2Info ==
    /\ api = "acq2" /\ pc = "info"
    /\ UNCHANGED <<callVars, readerVars>>
    /\ \/ TimedOut(1) /\ Raise("timeout") /\ UNCHANGED <<rx, eof>>
       \/ \E k \in RecvLens(1) :
            /\ Recv(1, k)
            /\ IF Take(rx, k) = <<HASH>> THEN Goto("head") ELSE Raise("NameError")

\* __read_block2 lines 51-54
ReadBlock2Head ==
    /\ api = "acq2" /\ pc = "head"
    /\ UNCHANGED <<callVars, info, length, cnt, data, data_out>>
    /\ \/ TimedOut(1) /\ Raise("timeout") /\ UNCHANGED <<rx, eof, head_d, lenbuf>>
       \/ \E k \in RecvLens(1) :
            LET r == ParseInt(Take(rx, k)) IN
            /\ Recv(1, k)
            /\ lenbuf' = <<>>
            /\ IF r.ok THEN head_d' = r.val /\ Goto("length")
               ELSE head_d' = head_d /\ Raise("ValueError")

\* __read_block2 lines 55-64: one turn of the length-field loop, and the
\* conversion once head_d bytes are there
ReadBlock2Length ==
    /\ api = "acq2" /\ pc = "length"
    /\ UNCHANGED <<callVars, info, head_d, data, data_out>>
    /\ \/ TimedOut(1) /\ Raise("timeout") /\ UNCHANGED <<rx, eof, lenbuf, length, cnt>>
       \/ \E k \in RecvLens(1) :
            LET buf == lenbuf \o Take(rx, k)
                r == ParseInt(buf)
            IN  /\ Recv(1, k)
                /\ lenbuf' = buf
                /\ IF Len(buf) # head_d
                   THEN cnt' = Len(buf) /\ length' = length /\ UNCHANGED <<pc, err>>
                   ELSE /\ cnt' = 0
                        /\ IF r.ok THEN length' = BodyLength(r.val) /\ Goto("body")
                           ELSE length' = length /\ Raise("ValueError")

\* __read_block2 lines 65-72: one turn of the body loop; bytes are kept
\* while fewer than 2*num have been counted
ReadBlock2Body ==
    /\ api = "acq2" /\ pc = "body"
    /\ UNCHANGED <<callVars, info, head_d, lenbuf, length, data_out>>
    /\ \/ TimedOut(RecvChunk) /\ Raise("timeout") /\ UNCHANGED <<rx, eof, cnt, data>>
       \/ \E k \in RecvLens(RecvChunk) :
            /\ Recv(RecvChunk, k)
            /\ data' = IF cnt < 2 * num THEN data \o Take(rx, k) ELSE data
            /\ cnt' = cnt + k
            /\ IF cnt' = length THEN Goto("decode") ELSE UNCHANGED <<pc, err>>

\* __read_block2 line 77 and __read_block_waveform2 lines 80-85
ReadBlockWaveform2 ==
    /\ api = "acq2" /\ pc = "decode"
    /\ UNCHANGED <<callVars, info, head_d, lenbuf, length, cnt, data, rx, eof>>
    /\ LET r == DecodeBlock2(Take(data, Min(2 * num, Len(data)))) IN
       IF r.ok THEN data_out' = r.val /\ Goto("done")
       ELSE data_out' = data_out /\ Raise("ValueError")

----------------------------------------------------------------------------
(* The query after the fetch *)

\* the line the instrument sends in reply to ':CHANnel1:SCALe?'
ScaleReply == <<50, LF>>

\* DsoBasic.query lines 144-148 and readline lines 110-127, as called by
\* Channel.get_scale once the fetch has returned: the command is written,
\* the instrument replies, and readline takes the bytes up to the first line
\* feed, which it strips. On a closed connection MicroPython's readline
\* returns nothing and CPython's loop keeps reading b''.
QueryAfter ==
    /\ pc = "done"
    /\ UNCHANGED <<api, ch_ok, real_value, pos_consider, num, micropython, wire,
                   ntscVars, keyVars, readerVars>>
    /\ IF eof
       THEN /\ UNCHANGED <<rx, eof>>
            /\ IF micropython THEN answer' = <<>> /\ Goto("queried")
               ELSE UNCHANGED <<answer, pc, err>>
       ELSE LET stream == rx \o ScaleReply
                at == FirstIndex(stream, LF)
            IN  /\ rx' = Drop(stream, at) /\ eof' = eof
                /\ IF DecodeOk(Take(stream, at))
                   THEN answer' = Take(stream, at - 1) /\ Goto("queried")
                   ELSE answer' = answer /\ Raise("UnicodeDecodeError")

----------------------------------------------------------------------------
NextBlock ==
    \/ GwnStart
    \/ GwnHeaderLoop
    \/ ReadBlockInfo
    \/ ReadBlockHead
    \/ ReadBlockLength
    \/ ReadBlockBody
    \/ ReadBlockWaveform
    \/ GwnPost
    \/ Acq2HeaderLoop
    \/ ReadBlock2Info
    \/ ReadBlock2Head
    \/ ReadBlock2Length
    \/ ReadBlock2Body
    \/ ReadBlockWaveform2
    \/ QueryAfter

\* DsoBasic.__init__ lines 27-29 and the start of the thread: no key is
\* pending, no file is there, get_key is not running
IdleKey ==
    /\ key_flag = FALSE /\ key_code = <<>> /\ key_cnt = <<>>
    /\ shm = <<>> /\ t_pc = "stat" /\ message = <<>> /\ t_i = 0 /\ flag = FALSE
    /\ t_tmp = <<>>
    /\ g_pc = "idle" /\ key_out = 0 /\ key_cnt_out = 0
    /\ accepted = <<>> /\ returned = <<>>

\* nothing is drawn and the wait for the acquisition has not begun; no query
\* has followed a fetch; the keys are as DsoBasic() leaves them
IdleDraw ==
    /\ poll_j = 0 /\ val_min = 0 /\ val_max = 0
    /\ canvas = <<>> /\ set_px_calls = 0
    /\ answer = <<>>
    /\ IdleKey

\* the frame reconstruction is not running
IdleNtsc ==
    /\ acq = <<>> /\ dataLen = 0 /\ written = <<>>
    /\ line = 0 /\ px = 0 /\ index = 0 /\ dest_index = 0 /\ offset = 0
    /\ ref = 0 /\ si = 0 /\ printed = "nothing"
    /\ IdleDraw

\* one waveform fetch, by get_waveform_num or by get_acqdata2
Init == InitBlock /\ IdleNtsc
Next == NextBlock
Spec == Init /\ [][Next]_vars

----------------------------------------------------------------------------
(* The corrections of get_waveform_num (lines 225-244) on their own: the    *)
(* call has read the header line and the block and has decoded the samples. *)

\* the header line's fields: the memory length (up to one more than the
\* longest waveform), the vertical scale and the vertical position
PostHeaders == [mem : 0..(MaxBody \div 2 + 1), scale : {3, 5, 25}, pos : {0 - 2, 0 - 1, 0, 2}]

\* get_waveform_num at line 225, for every payload of whole samples
InitPost ==
    \E p \in {q \in Payloads : Len(q) % 2 = 0}, h \in PostHeaders,
       r \in BOOLEAN, c \in BOOLEAN :
       LET m == [Reply(p, 1, NoFault, TextON \o <<LF>>)
                     EXCEPT !.header = HeaderLine(h.mem, h.scale, h.pos)]
       IN  /\ api = "num" /\ ch_ok = TRUE
           /\ real_value = r /\ pos_consider = c
           /\ num = 0 /\ micropython = FALSE
           /\ wire = [m |-> m, arrived |-> Len(WireBytes(m)), post |-> h]
           /\ rx = <<>> /\ eof = FALSE
           /\ pc = "post" /\ err = "none"
           /\ info = ParseHeader(m.header)
           /\ head_d = 1 /\ lenbuf = Dec(Len(p), 1)
           /\ length = BodyLength(Len(p)) /\ cnt = BodyLength(Len(p))
           /\ data = p \o <<LF>>
           /\ data_out = [i \in 1..(Len(p) \div 2) |-> Word(p[2 * i - 1], p[2 * i])]

InitCorr == InitPost /\ IdleNtsc
NextPost == GwnPost
SpecPost == InitCorr /\ [][NextPost]_vars

----------------------------------------------------------------------------
(* The header line on its own: either fetch at its header loop, for every   *)
(* short line of groups and fields                                           *)

\* the longest header line of the model, its line feed not counted
MaxHeader == 7
\* the bytes of the model's header lines: 'a', ',' and ';'
HeaderBytes == {97, COMMA, SEMI}

InitHdr ==
    \E h \in SeqsUpTo(HeaderBytes, MaxHeader), a \in {"num", "acq2"} :
       LET m == [Reply(<<0, 255>>, 1, NoFault, <<>>) EXCEPT !.header = h \o <<LF>>]
       IN  /\ api = a /\ ch_ok = TRUE
           /\ real_value = FALSE /\ pos_consider = FALSE
           /\ num = 1 /\ micropython = FALSE
           /\ wire = [m |-> m, arrived |-> Len(WireBytes(m))]
           /\ rx = WireBytes(m) /\ eof = FALSE
           /\ pc = (IF a = "num" THEN "header" ELSE "start") /\ err = "none"
           /\ info = <<>>
           /\ head_d = 0 /\ lenbuf = <<>> /\ length = 0 /\ cnt = 0
           /\ data = <<>> /\ data_out = <<>>

InitHeader == InitHdr /\ IdleNtsc
NextHeader ==
    \/ GwnHeaderLoop
    \/ Acq2HeaderLoop
SpecHeader == InitHeader /\ [][NextHeader]_vars

----------------------------------------------------------------------------
(* Properties of the block readers and of the decoders *)

\* every byte of the reply, sent or not
All == WireBytes(wire.m)
\* bytes taken from the socket so far
Consumed == wire.arrived - Len(rx)
\* the framing is the one of the wire format
Sound == wire.m.fault = NoFault
\* the whole reply arrives
Whole == wire.arrived = Len(All)
\* the value the length field of the reply declares
Declared == ParseInt(Drop(wire.m.framing, 2)).val
\* the block reader has returned the body to the decoder
BlockReturned == ch_ok /\ pc \in {"decode", "post", "done"}

\* C1: however the transport fragments a well-framed reply, the block reader
\* returns only once it has consumed the whole body the length field
\* announces, terminator included, and nothing after it.
C1_ExactBodyConsumed ==
    (Sound /\ BlockReturned) => Consumed = Len(All)

\* C2 as stated: after a length field declaring L the reader consumes L
\* bytes, L-1 of payload and the terminator, and hands L-1 bytes to the
\* decoder.
C2_BodyIsDeclaredLength ==
    (api = "num" /\ Sound /\ BlockReturned)
        => /\ Len(data) = Declared
           /\ Len(DecoderInput(data)) = Declared - 1

\* C2 amended: having read the length field as L, __read_block returns only
\* after exactly L+1 further bytes, the L bytes of payload and one
\* terminator; the decoder is handed exactly the L payload bytes. When the
\* field of a well-framed reply is read whole these are the reply's payload.
C2_BodyIsLengthPlusOne ==
    (api = "num" /\ BlockReturned) =>
        LET L == ParseInt(lenbuf).val
            c0 == Len(wire.m.reply) + Len(wire.m.header) + 2 + Len(lenbuf)
        IN  /\ Len(data) = L + 1
            /\ Consumed = c0 + L + 1
            /\ data = SubSeq(All, c0 + 1, c0 + L + 1)
            /\ DecoderInput(data) = SubSeq(All, c0 + 1, c0 + L)
            /\ (Sound /\ Len(lenbuf) = head_d) =>
                  /\ DecoderInput(data) = wire.m.payload
                  /\ data[Len(data)] = LF

\* a block of four payload bytes has been read whole and handed to the decoder
C2_Witness ==
    /\ api = "num" /\ pc = "decode"
    /\ wire.m.payload = <<255, 0, 0, 255>>
    /\ data = <<255, 0, 0, 255, LF>>

\* C3: with no correction asked for, an even number of payload bytes decodes
\* to one value per two bytes, value i being the signed big-endian word i.
C3_DecodeExact ==
    (api = "num" /\ pc = "done" /\ ch_ok /\ ~real_value /\ ~pos_consider
     /\ Len(DecoderInput(data)) % 2 = 0) =>
        LET b == DecoderInput(data) IN
        /\ Len(data_out) = Len(b) \div 2
        /\ \A i \in 1..Len(data_out) :
              /\ data_out[i] \in (0 - 32768)..32767
              /\ (data_out[i] - (b[2 * i - 1] * 256 + b[2 * i])) % 65536 = 0

\* two words, a negative and a positive one, have been returned raw
C3_Witness ==
    /\ api = "num" /\ pc = "done" /\ ~real_value /\ ~pos_consider
    /\ DecoderInput(data) = <<255, 0, 0, 255>>
    /\ data_out = <<0 - 256, 255>>

\* C4: a payload of odd length, read whole, never yields a sample buffer.
C4_OddPayloadFails ==
    (Sound /\ Whole /\ ch_ok /\ Len(wire.m.payload) % 2 = 1
     /\ rx = <<>> /\ cnt = Len(wire.m.payload) + 1)
        => pc \notin {"post", "done"}

\* only the '#' of the framing arrives
DigitCountMissing ==
    Sound /\ wire.arrived = Len(wire.m.reply) + Len(wire.m.header) + 1

\* C5: a reply whose first byte is not '#', whose digit count is missing or
\* no digit, or whose length field is no decimal integer, never makes the
\* call return samples.
C5_BadFramingFails ==
    ((~Sound \/ DigitCountMissing) /\ ch_ok) => pc \notin {"post", "done"}

\* the connection is closed inside the body of a well-framed reply
ClosedInBody ==
    Sound /\ ~Whole /\ wire.arrived >= PreambleLen(wire.m) /\ eof

\* C6: once a read returns no bytes because the connection was closed before
\* the body was complete, the reader has ended with an error: it is neither
\* still in its loop nor back with a short block.
C6_ClosedStreamFails ==
    (ClosedInBody /\ ch_ok) => pc = "error"

----------------------------------------------------------------------------
(* Frame reconstruction: __main__ of ntsc_waveform2image.py from line 144   *)
(* and search_ntsc_sync_edge.                                               *)
(*                                                                          *)
(* data is held as the acquired samples Orig(k), the cells assigned since   *)
(* (written) and its length. The loops run over FieldLines lines of         *)
(* LinePixels pixels (240 and 500 in the script).                           *)

\* lines per field in the model (range(240), lines 145 and 153)
FieldLines == 6
\* pixels per line in the model (range(500), lines 148 and 155)
LinePixels == 3

\* LINE_PERIOD = 63555.56 ns, in units of 0.04 ns (the largest unit that
\* makes it and the sample period integers)
LinePeriod == 1588889
\* the sample period, the 50 (ns) of LINE_PERIOD/50, in units of 0.04 ns
SamplePeriod == 1250
\* first sample of the first line of field 1
BaseOffset == 200
\* lines from the trigger to the first line of field 2
SyncLine == 263
search_offset == 10
\* the code of 0 V at position 0, and the codes per division
CodeCenter == 128
CodesPerDiv == 25
\* get_acqdata2(1, 650000)
AcqPoints == 650000

\* int(base + (n*LINE_PERIOD)/50) rounded to the nearest integer instead
LineStartRounded(base, n) ==
    (2 * (base * SamplePeriod + n * LinePeriod) + SamplePeriod) \div (2 * SamplePeriod)

\* the first index of a line were a sample taken every 25 ns
LineStartFast(base, n) == (base * SamplePeriod + 2 * n * LinePeriod) \div SamplePeriod

\* int(base + (n*LINE_PERIOD)/50), lines 108, 109, 146 and 154
LineStart(base, n) == TruncDiv(base * SamplePeriod + n * LinePeriod, SamplePeriod)

\* index + j instead of index + 2*j
SrcIndexDense(start, k) == start + k

\* index + 2*j, lines 149 and 156
SrcIndex(start, k) == start + 2 * k

\* first index of the window search_ntsc_sync_edge scans (line 108)
WindowStart == LineStart(0, SyncLine) - search_offset
\* search_max
WindowLen == 2 * search_offset

\* sample codes of the model: below and above every threshold, and one
\* that the thresholds straddle
Codes == [dip |-> 40, high |-> 220, mid |-> 128]

\* the acquired samples: around the window of the sync search they are
\* Codes.high but for the dips and the one middle code the acquisition names
\* (by their distance from the window's start); elsewhere they differ
\* from one index to the next and range over acq.span codes
Orig(k) ==
    LET rel == k - WindowStart IN
    IF rel \in acq.dips THEN Codes.dip
    ELSE IF rel \in acq.mids THEN Codes.mid
    ELSE IF rel \in (0 - 2)..(WindowLen + 1) THEN Codes.high
    ELSE 60 + (k % acq.span)

\* an index is taken as it comes, in range or not
IndexUnchecked(k) == TRUE

\* list indexing: a negative index counts from the end
IndexOk(k) == k < dataLen /\ k >= 0 - dataLen
ListIndex(k) == IF k < 0 THEN k + dataLen ELSE k

\* data[k]
DataAt(k) ==
    IF ListIndex(k) \in DOMAIN written THEN written[ListIndex(k)] ELSE Orig(ListIndex(k))

\* data[k] = v
Put(k, v) ==
    [c \in DOMAIN written \cup {ListIndex(k)} |->
        IF c = ListIndex(k) THEN v ELSE written[c]]

\* what the reconstruction never changes but for the final trim
asmVars == <<acq, dataLen, api, ch_ok, real_value, pos_consider, num, micropython,
             wire, rx, eof, info, head_d, lenbuf, length, cnt, data, data_out,
             drawVars, answer, keyVars>>

\* line 144
AsmStart ==
    /\ pc = "asm"
    /\ dest_index' = 0 /\ line' = 0
    /\ Goto("f1_line")
    /\ UNCHANGED <<asmVars, written, px, index, offset, ref, si, printed>>

\* lines 145-146 (field 1) and 153-154 (field 2): the next line's first index
LineHead(at, base, inner, after) ==
    /\ pc = at
    /\ IF line < FieldLines
       THEN index' = LineStart(base, line) /\ px' = 0 /\ Goto(inner)
       ELSE UNCHANGED <<index, px>> /\ Goto(after)
    /\ UNCHANGED <<asmVars, written, line, dest_index, offset, ref, si, printed>>

\* lines 148-150 and 155-157: one copy of the inner loop
CopyPixel(at, head) ==
    /\ pc = at
    /\ UNCHANGED <<asmVars, index, offset, ref, si, printed>>
    /\ IF ~IndexOk(SrcIndex(index, px)) \/ ~IndexOk(dest_index)
       THEN Raise("IndexError") /\ UNCHANGED <<written, dest_index, px, line>>
       ELSE /\ written' = Put(dest_index, DataAt(SrcIndex(index, px)))
            /\ dest_index' = dest_index + 1
            /\ IF px + 1 < LinePixels
               THEN px' = px + 1 /\ line' = line /\ UNCHANGED <<pc, err>>
               ELSE px' = px + 1 /\ line' = line + 1 /\ Goto(head)

\* the 200 of line 146: field 1 starts at the fixed base offset
Field1Start == BaseOffset

\* field 2 assembled from the fixed base offset, as field 1 is
Field2StartNominal == BaseOffset

\* the offset of line 154: field 2 starts at the result of the sync search
Field2Start == offset

Field1Line == LineHead("f1_line", Field1Start, "f1_px", "sync")
Field1Copy == CopyPixel("f1_px", "f1_line")
Field2Line == LineHead("f2_line", Field2Start, "f2_px", "trim")
Field2Copy == CopyPixel("f2_px", "f2_line")

\* the threshold with the quotient rounded to the nearest integer
CrossingRefRounded(v_pos, trig_level, v_scale) ==
    LET n == (v_pos + trig_level) * CodesPerDiv IN
    CodeCenter + (IF n >= 0 THEN (2 * n + v_scale) \div (2 * v_scale)
                  ELSE 0 - ((2 * (0 - n) + v_scale) \div (2 * v_scale)))

\* 128 + int((v_pos + trig_level)*25/v_scale), line 106; the settings are
\* held in eighths of a volt, which floating point represents exactly
CrossingRef(v_pos, trig_level, v_scale) ==
    CodeCenter + TruncDiv((v_pos + trig_level) * CodesPerDiv, v_scale)

\* the offset without the base offset of 200
SearchOffsetBare == LineStart(0, SyncLine)

\* offset = int(200 + 263*LINE_PERIOD/50), line 109
SearchOffset == LineStart(BaseOffset, SyncLine)

\* offset - search_offset + i, without the step back
FoundOffsetNoStep(k) == SearchOffset - search_offset + k

\* offset - search_offset + i - 1, line 114, i being the place in the window
FoundOffset(k) == SearchOffset - search_offset + k - 1

\* search_ntsc_sync_edge lines 101-109
SyncStart ==
    /\ pc = "sync"
    /\ UNCHANGED <<asmVars, written, line, px, index, dest_index, offset, printed>>
    /\ si' = 0
    /\ IF acq.v_scale = 0
       THEN ref' = ref /\ Raise("ZeroDivisionError")
       ELSE ref' = CrossingRef(acq.v_pos, acq.trig_level, acq.v_scale)
            /\ Goto("sync_loop")

\* the search giving up with an exception when it finds no edge
SyncFallbackFatal ==
    /\ printed' = "Sync edge not found!"
    /\ Raise("LookupError")
    /\ UNCHANGED <<offset, line, si>>

\* lines 115-116 and 153: no edge in the window; the search prints, returns
\* the nominal offset, and the script goes on with field 2
SyncFallback ==
    /\ printed' = "Sync edge not found!"
    /\ offset' = SearchOffset
    /\ line' = 0 /\ si' = si
    /\ Goto("f2_line")

\* search_ntsc_sync_edge lines 110-116: one turn of the loop, or its end
SyncStep ==
    /\ pc = "sync_loop"
    /\ UNCHANGED <<asmVars, written, px, index, dest_index, ref>>
    /\ IF si >= WindowLen
       THEN SyncFallback
       ELSE IF ~IndexOk(WindowStart + si)
       THEN Raise("IndexError") /\ UNCHANGED <<printed, offset, line, si>>
       ELSE IF DataAt(WindowStart + si) < ref
       THEN /\ printed' = "Sync edge found"
            /\ offset' = FoundOffset(si)
            /\ line' = 0 /\ si' = si
            /\ Goto("f2_line")
       ELSE si' = si + 1 /\ UNCHANGED <<printed, offset, line, pc, err>>

\* the slice deletion left out: the list keeps its length
TrimLenKept(len, dest) == len

\* len(data) after del data[dest:] for dest >= 0
TrimLen(len, dest) == Min(len, dest)

\* line 158: del data[dest_index:]
AsmTrim ==
    /\ pc = "trim"
    /\ dataLen' = TrimLen(dataLen, dest_index)
    /\ Goto("assembled")
    /\ UNCHANGED <<acq, api, ch_ok, real_value, pos_consider, num, micropython, wire,
                   rx, eof, info, head_d, lenbuf, length, cnt, data, data_out>>
    /\ UNCHANGED <<written, line, px, index, dest_index, offset, ref, si, printed,
                   drawVars, answer, keyVars>>

\* the samples the acquisition may hold in and next to the search window,
\* by their distance from the window's start
TestPlaces == {0 - 1, 0, 1, search_offset, search_offset + 1, WindowLen - 1, WindowLen}

\* channel and trigger settings (v_scale, v_pos, trig_level) in eighths of
\* a volt: thresholds 128, 128 - 37 and 128 + 50, and two whose quotients,
\* -50/3 and 50/3, are no integers and no ties: 128 - 16 and 128 + 16
Settings == {<<2, 0, 0>>, <<2, 0 - 4, 1>>, <<4, 5, 3>>, <<3, 0 - 3, 1>>, <<3, 1, 1>>}

\* len(data) after get_acqdata2: what was asked for, or what a shorter
\* memory gives: too short for the search window, for field 2, for field 1
DataLens == {AcqPoints, WindowStart + 5, AcqPoints \div 2, BaseOffset + 2 * LinePixels}

InitNtsc ==
    /\ \E d \in SUBSET TestPlaces, m \in {{}, {5}}, v \in Settings, n \in DataLens :
          /\ Cardinality(d) <= 2
          /\ acq = [dips |-> d, mids |-> m, span |-> 331,
                    v_scale |-> v[1], v_pos |-> v[2], trig_level |-> v[3]]
          /\ dataLen = n
    /\ written = <<>>
    /\ line = 0 /\ px = 0 /\ index = 0 /\ dest_index = 0 /\ offset = 0
    /\ ref = 0 /\ si = 0 /\ printed = "nothing"
    /\ IdleDraw
    /\ pc = "asm" /\ err = "none"

\* no waveform fetch is running
IdleBlock ==
    /\ api = "none" /\ ch_ok = TRUE /\ real_value = FALSE /\ pos_consider = FALSE
    /\ num = 0 /\ micropython = TRUE
    /\ wire = <<>> /\ rx = <<>> /\ eof = FALSE
    /\ info = <<>> /\ head_d = 0 /\ lenbuf = <<>> /\ length = 0 /\ cnt = 0
    /\ data = <<>> /\ data_out = <<>>

NextNtsc ==
    \/ AsmStart
    \/ Field1Line
    \/ Field1Copy
    \/ SyncStart
    \/ SyncStep
    \/ Field2Line
    \/ Field2Copy
    \/ AsmTrim

\* the reconstruction of one acquired buffer
InitAsm == InitNtsc /\ IdleBlock
SpecNtsc == InitAsm /\ [][NextNtsc]_vars

----------------------------------------------------------------------------
(* The whole of __main__ from line 131: the wait for the acquisition, the   *)
(* fetch, the reassembly above, the minimum and maximum, and the drawing.   *)

\* range(30), line 132
PollLimit == 30
\* the 29 of line 140
LastPoll == 29
\* the clamp of lines 172-173 and 176-177
MaxIntensity == 255
\* range(256), line 25: the entries of color_table
ColorCount == 256

\* the variables of a waveform fetch but for pc and err
dsoVars == <<api, ch_ok, real_value, pos_consider, num, micropython, wire, rx, eof,
             info, head_d, lenbuf, length, cnt, data, data_out, answer, keyVars>>
\* the variables of the reassembly and of the sync search
asmLocals == <<written, line, px, index, dest_index, offset, ref, si, printed>>

\* samples field 1 reads: one more than the largest index of lines 146-149
Field1Need == LineStart(BaseOffset, FieldLines - 1) + 2 * (LinePixels - 1) + 1

\* len(data) after get_acqdata2, as DataLens, and the lengths at which the
\* reassembly begins to fit: field 1 just short and just whole, the search
\* window whole, field 2 from the nominal offset one sample short
FrameLens ==
    DataLens \cup {Field1Need - 1, Field1Need, WindowStart + WindowLen,
                   SearchOffset + Field1Need - BaseOffset - 1}

\* the width of the range of the samples away from the search window
Spans == {331, 97}

\* what the instrument may have acquired
Acquisitions ==
    {[dips |-> d, mids |-> m, span |-> w,
      v_scale |-> v[1], v_pos |-> v[2], trig_level |-> v[3]] :
        d \in {e \in SUBSET TestPlaces : Cardinality(e) <= 2},
        m \in {{}, {5}}, w \in Spans, v \in Settings}

\* the exceptions get_acqdata2 ends with (ReadBlock2Info .. ReadBlockWaveform2)
FetchErrors == {"timeout", "NameError", "ValueError"}

\* lines 132-133, 138-142: one poll of dso.acquire.get_state(1) that finds
\* the acquisition ready or not; after the last poll the script exits
Poll ==
    /\ pc = "poll"
    /\ UNCHANGED <<dsoVars, acq, dataLen, asmLocals, val_min, val_max, canvas,
                   set_px_calls>>
    /\ \/ Goto("fetch") /\ poll_j' = poll_j
       \/ IF poll_j + 1 < PollLimit
          THEN poll_j' = poll_j + 1 /\ UNCHANGED <<pc, err>>
          ELSE poll_j' = poll_j /\ Goto("exit")

\* lines 134-137, 140-142: get_acqdata2(1, 650000) returns the samples,
\* raises, or never returns (ReadBlock2Body on a closed connection); then
\* the test of j. j is not read again before line 148 binds it anew, the
\* model lets go of its value when the script goes on.
Fetch ==
    /\ pc = "fetch"
    /\ UNCHANGED <<dsoVars, asmLocals, val_min, val_max, canvas, set_px_calls>>
    /\ \/ \E a \in Acquisitions, n \in FrameLens :
            /\ a.span # 331 => n = AcqPoints
            /\ acq' = a /\ dataLen' = n
            /\ IF poll_j >= LastPoll
               THEN poll_j' = poll_j /\ Goto("exit")
               ELSE poll_j' = 0 /\ Goto("asm")
       \/ \E e \in FetchErrors :
            Raise(e) /\ UNCHANGED <<acq, dataLen, poll_j>>
       \/ Goto("hung") /\ UNCHANGED <<acq, dataLen, poll_j>>

\* min(S) and max(S)
SetMin(S) == CHOOSE m \in S : \A v \in S : m <= v
SetMax(S) == CHOOSE m \in S : \A v \in S : m >= v

\* lines 161-165: min(data), max(data), offset = 240*500
MinMax ==
    /\ pc = "assembled"
    /\ UNCHANGED <<dsoVars, acq, dataLen, written, index, dest_index, ref, si, printed,
                   poll_j, canvas, set_px_calls>>
    /\ IF dataLen = 0
       THEN Raise("ValueError") /\ UNCHANGED <<val_min, val_max, offset, line, px>>
       ELSE /\ val_min' = SetMin({DataAt(k) : k \in 0..(dataLen - 1)})
            /\ val_max' = SetMax({DataAt(k) : k \in 0..(dataLen - 1)})
            /\ offset' = FieldLines * LinePixels
            /\ line' = 0 /\ px' = 0
            /\ Goto("render")

\* the difference to the minimum, not clamped
IntensityUnclamped(v, lo) == v - lo

\* lines 171-173 and 175-177: value = data[..] - val_min, at most 255
Intensity(v, lo) == IF v - lo > MaxIntensity THEN MaxIntensity ELSE v - lo

\* the fields one above the other: field 2 below the rows of field 1
RasterRowStacked(y, field) == y + field * FieldLines

\* lines 169, 174 and 178: y2 = 2*y for field 1 (0), y2 + 1 for field 2 (1)
RasterRow(y, field) == 2 * y + field

\* color_table[value]: a list of 256 entries, entry i the grey of level i
ColorOk(v) == v < ColorCount /\ v >= 0 - ColorCount
ColorAt(v) == v % ColorCount

\* gui.canvas.set_px(x, y, color_table[v])
SetPx(c, x, y, v) ==
    [q \in DOMAIN c \cup {<<x, y>>} |-> IF q = <<x, y>> THEN ColorAt(v) ELSE c[q]]

\* lines 166-178: one turn of the inner loop draws pixel x of line y of
\* field 1 and then of field 2
RenderPixel ==
    /\ pc = "render"
    /\ UNCHANGED <<dsoVars, acq, dataLen, written, index, dest_index, offset, ref, si,
                   printed, poll_j, val_min, val_max>>
    /\ LET index1 == line * LinePixels
           index2 == index1 + offset
           v1 == Intensity(DataAt(index1 + px), val_min)
           v2 == Intensity(DataAt(index2 + px), val_min)
           one == SetPx(canvas, px, RasterRow(line, 0), v1)
       IN  IF ~IndexOk(index1 + px) \/ ~ColorOk(v1)
           THEN Raise("IndexError") /\ UNCHANGED <<canvas, set_px_calls, line, px>>
           ELSE IF ~IndexOk(index2 + px) \/ ~ColorOk(v2)
           THEN /\ canvas' = one /\ set_px_calls' = set_px_calls + 1
                /\ Raise("IndexError") /\ UNCHANGED <<line, px>>
           ELSE /\ canvas' = SetPx(one, px, RasterRow(line, 1), v2)
                /\ set_px_calls' = set_px_calls + 2
                /\ IF px + 1 < LinePixels
                   THEN px' = px + 1 /\ line' = line /\ UNCHANGED <<pc, err>>
                   ELSE /\ px' = 0 /\ line' = line + 1
                        /\ IF line + 1 < FieldLines THEN UNCHANGED <<pc, err>>
                           ELSE Goto("rendered")

InitFrame == IdleBlock /\ IdleNtsc /\ pc = "poll" /\ err = "none"

NextFrame ==
    \/ Poll
    \/ Fetch
    \/ AsmStart
    \/ Field1Line
    \/ Field1Copy
    \/ SyncStart
    \/ SyncStep
    \/ Field2Line
    \/ Field2Copy
    \/ AsmTrim
    \/ MinMax
    \/ RenderPixel

\* one run of the script
SpecFrame == InitFrame /\ [][NextFrame]_vars

\* the script, once started, takes its next step as long as there is one
SpecFrameLive == SpecFrame /\ WF_vars(NextFrame)

----------------------------------------------------------------------------
(* The first index of a line, for every line of the script's 240 *)

\* range(240), lines 145 and 153
VideoLines == 240
\* range(500), lines 148 and 155
VideoPixels == 500

\* dest_index at the head of a line were a line three times as wide
DestStartWide(field, l) == (field * VideoLines + l) * 3 * VideoPixels

\* dest_index at the head of line l of a field (0 or 1): it starts at 0
\* (line 144) and grows by one with every pixel copied (lines 150 and 157)
DestStart(field, l) == (field * VideoLines + l) * VideoPixels

\* every value search_ntsc_sync_edge can return
SyncResults == {FoundOffset(k) : k \in 0..(WindowLen - 1)} \cup {SearchOffset}

\* the head of a line of field 1 (offset 200) or of field 2 (offset as
\* the sync search returned it) with the 650000 samples asked for in data
InitLine ==
    /\ IdleBlock
    /\ acq = <<>> /\ dataLen = AcqPoints /\ written = <<>>
    /\ line \in 0..(VideoLines - 1)
    /\ offset \in {BaseOffset} \cup SyncResults
    /\ px = 0 /\ index = 0
    /\ dest_index = DestStart(IF offset = BaseOffset THEN 0 ELSE 1, line)
    /\ ref = 0 /\ si = 0 /\ printed = "nothing"
    /\ IdleDraw
    /\ pc = "line" /\ err = "none"

\* lines 146 and 154 for the field base held in offset
LineIndex ==
    /\ pc = "line"
    /\ index' = LineStart(offset, line)
    /\ Goto("line_done")
    /\ UNCHANGED <<asmVars, written, line, px, dest_index, offset, ref, si, printed>>

SpecLine == InitLine /\ [][LineIndex]_vars

----------------------------------------------------------------------------
(* The keys: the thread __dso_key_shm and DsoBasic.get_key *)

\* key messages the firmware writes while the model runs
MaxKeys == 2
\* shm_size, line 696
ShmSize == 10
NUL == 0

\* a key message: the code, ',', the count, padded with NUL to shm_size bytes
KeyMessage(code, count) ==
    LET t == code \o <<COMMA>> \o count
    IN  t \o [i \in 1..(ShmSize - Len(t)) |-> NUL]

\* the messages of the model: '12,34' and '7,255'
KeyMessages == {KeyMessage(<<49, 50>>, <<51, 52>>), KeyMessage(<<55>>, <<50, 53, 53>>)}

\* get_key lines 682-683: a count above 128 is a negative step
KeyCount(c) == IF c > 128 THEN c - 256 ELSE c

\* what is not part of the key hand-off
notKeyVars == <<blockVars, ntscVars, answer>>

\* the firmware writes a key message to /dev/shm/upy/shm_key
KeyPress ==
    /\ shm = <<>> /\ Len(accepted) < MaxKeys
    /\ shm' \in KeyMessages
    /\ UNCHANGED <<notKeyVars, key_flag, key_code, key_cnt, t_pc, message, t_i, flag,
                   t_tmp, g_pc, key_out, key_cnt_out, accepted, returned>>

\* lines 699-722: the file is there and key_flag is False: the thread moves
\* the file away and reads it. (Without the file, or with key_flag True, it
\* sleeps and tries again.)
ThreadAccept ==
    /\ t_pc = "stat" /\ shm # <<>> /\ key_flag = FALSE
    /\ message' = shm /\ shm' = <<>>
    /\ accepted' = Append(accepted, shm)
    /\ t_pc' = "mark"
    /\ UNCHANGED <<notKeyVars, key_flag, key_code, key_cnt, t_i, flag, t_tmp, g_pc,
                   key_out, key_cnt_out, returned>>

\* lines 723-725: if message: self.key_flag = True
ThreadMark ==
    /\ t_pc = "mark"
    /\ IF message # <<>>
       THEN key_flag' = TRUE /\ t_pc' = "loop"
       ELSE key_flag' = key_flag /\ t_pc' = "close"
    /\ t_i' = 0
    /\ UNCHANGED <<notKeyVars, key_code, key_cnt, shm, message, flag, t_tmp, g_pc,
                   key_out, key_cnt_out, accepted, returned>>

\* lines 726-734: one turn of 'for i in range(shm_size)' up to the store of
\* a '+=': the attribute is loaded and the character appended to the value
\* loaded. message[i] beyond the message raises IndexError, which line 741
\* catches.
ThreadLoop ==
    /\ t_pc = "loop"
    /\ UNCHANGED <<notKeyVars, key_flag, key_code, key_cnt, shm, message, g_pc,
                   key_out, key_cnt_out, accepted, returned>>
    /\ IF t_i >= ShmSize \/ t_i >= Len(message)
       THEN t_pc' = "close" /\ UNCHANGED <<t_i, flag, t_tmp>>
       ELSE LET c == message[t_i + 1] IN
            IF c # COMMA /\ flag = FALSE
            THEN t_tmp' = key_code \o <<c>> /\ t_pc' = "store_code" /\ UNCHANGED <<t_i, flag>>
            ELSE IF c = COMMA
            THEN flag' = TRUE /\ t_i' = t_i + 1 /\ UNCHANGED <<t_pc, t_tmp>>
            ELSE IF c # NUL /\ flag = TRUE
            THEN t_tmp' = key_cnt \o <<c>> /\ t_pc' = "store_cnt" /\ UNCHANGED <<t_i, flag>>
            ELSE flag' = FALSE /\ t_pc' = "close" /\ UNCHANGED <<t_i, t_tmp>>

\* the store of 'self.key_code += message[i]', line 728
ThreadStoreCode ==
    /\ t_pc = "store_code"
    /\ key_code' = t_tmp /\ t_tmp' = <<>>
    /\ t_i' = t_i + 1 /\ t_pc' = "loop"
    /\ UNCHANGED <<notKeyVars, key_flag, key_cnt, shm, message, flag, g_pc,
                   key_out, key_cnt_out, accepted, returned>>

\* the store of 'self.key_cnt += message[i]', line 732
ThreadStoreCnt ==
    /\ t_pc = "store_cnt"
    /\ key_cnt' = t_tmp /\ t_tmp' = <<>>
    /\ t_i' = t_i + 1 /\ t_pc' = "loop"
    /\ UNCHANGED <<notKeyVars, key_flag, key_code, shm, message, flag, g_pc,
                   key_out, key_cnt_out, accepted, returned>>

\* lines 738-752: message = '', the file closed and removed, the sleep
ThreadClose ==
    /\ t_pc = "close"
    /\ message' = <<>> /\ t_i' = 0 /\ t_pc' = "stat"
    /\ UNCHANGED <<notKeyVars, key_flag, key_code, key_cnt, shm, flag, t_tmp, g_pc,
                   key_out, key_cnt_out, accepted, returned>>

\* get_key line 679 finding key_flag True. (With key_flag False the call
\* returns (0, 0) and nothing has changed.)
GetKeyTest ==
    /\ g_pc = "idle" /\ key_flag = TRUE
    /\ g_pc' = "code"
    /\ UNCHANGED <<notKeyVars, key_flag, key_code, key_cnt, shm, t_pc, message, t_i,
                   flag, t_tmp, key_out, key_cnt_out, accepted, returned>>

\* line 680: key_out = int(self.key_code); a ValueError is caught and the
\* call returns (0, 0)
GetKeyCode ==
    /\ g_pc = "code"
    /\ LET r == ParseInt(key_code) IN
       IF r.ok THEN key_out' = r.val /\ g_pc' = "cnt"
       ELSE key_out' = 0 /\ g_pc' = "idle"
    /\ UNCHANGED <<notKeyVars, key_flag, key_code, key_cnt, shm, t_pc, message, t_i,
                   flag, t_tmp, key_cnt_out, accepted, returned>>

\* lines 681-683: key_cnt_out = int(self.key_cnt), wrapped
GetKeyCnt ==
    /\ g_pc = "cnt"
    /\ LET r == ParseInt(key_cnt) IN
       IF r.ok THEN key_cnt_out' = KeyCount(r.val) /\ key_out' = key_out /\ g_pc' = "clear_code"
       ELSE key_cnt_out' = 0 /\ key_out' = 0 /\ g_pc' = "idle"
    /\ UNCHANGED <<notKeyVars, key_flag, key_code, key_cnt, shm, t_pc, message, t_i,
                   flag, t_tmp, accepted, returned>>

\* line 684: self.key_code = ''
GetKeyClearCode ==
    /\ g_pc = "clear_code"
    /\ key_code' = <<>> /\ g_pc' = "clear_cnt"
    /\ UNCHANGED <<notKeyVars, key_flag, key_cnt, shm, t_pc, message, t_i,
                   flag, t_tmp, key_out, key_cnt_out, accepted, returned>>

\* line 685: self.key_cnt = ''
GetKeyClearCnt ==
    /\ g_pc = "clear_cnt"
    /\ key_cnt' = <<>> /\ g_pc' = "clear_flag"
    /\ UNCHANGED <<notKeyVars, key_flag, key_code, shm, t_pc, message, t_i,
                   flag, t_tmp, key_out, key_cnt_out, accepted, returned>>

\* lines 686-687: self.key_flag = False; return key_out, key_cnt_out
GetKeyReturn ==
    /\ g_pc = "clear_flag"
    /\ key_flag' = FALSE
    /\ returned' = Append(returned, <<key_out, key_cnt_out>>)
    /\ key_out' = 0 /\ key_cnt_out' = 0 /\ g_pc' = "idle"
    /\ UNCHANGED <<notKeyVars, key_code, key_cnt, shm, t_pc, message, t_i,
                   flag, t_tmp, accepted>>

InitKeys == IdleBlock /\ IdleNtsc /\ pc = "keys" /\ err = "none"

NextKeys ==
    \/ KeyPress
    \/ ThreadAccept
    \/ ThreadMark
    \/ ThreadLoop
    \/ ThreadStoreCode
    \/ ThreadStoreCnt
    \/ ThreadClose
    \/ GetKeyTest
    \/ GetKeyCode
    \/ GetKeyCnt
    \/ GetKeyClearCode
    \/ GetKeyClearCnt
    \/ GetKeyReturn

SpecKey == InitKeys /\ [][NextKeys]_vars

----------------------------------------------------------------------------
(* Properties of the sync search and of the field reassembly *)

\* the indices search_ntsc_sync_edge reads
Window == WindowStart..(WindowStart + WindowLen - 1)
\* the acquired sample at k is below the threshold of the acquisition
Below(k) ==
    Orig(k) < CodeCenter + TruncDiv((acq.v_pos + acq.trig_level) * CodesPerDiv, acq.v_scale)
\* search_ntsc_sync_edge has returned
Searched == pc \in {"f2_line", "f2_px", "trim", "assembled"}
               \/ (pc = "error" /\ printed # "nothing")

\* C7 as stated: the search returns the lowest index of the window whose
\* sample is below the threshold.
C7_ReturnsEdgeIndex ==
    (Searched /\ \E k \in Window : Below(k)) =>
        /\ printed = "Sync edge found"
        /\ Below(offset) /\ offset \in Window
        /\ \A k \in Window : Below(k) => offset <= k

\* C7 amended: the window is scanned upwards and at the lowest index k of
\* it whose sample is below the threshold the search prints 'Sync edge
\* found' and returns k + 199 (k + base offset - 1), the base of field 2.
C7_ReturnsEdgePlusBase ==
    (Searched /\ \E k \in Window : Below(k)) =>
        /\ printed = "Sync edge found"
        /\ \E k \in Window :
              /\ Below(k)
              /\ \A k2 \in Window : Below(k2) => k <= k2
              /\ offset = k + BaseOffset - 1
              /\ offset = k + 199

\* the one sample below the threshold is at place 11 of the window
C7_Witness ==
    /\ Searched /\ pc = "assembled"
    /\ {k \in Window : Below(k)} = {WindowStart + 11}
    /\ offset = WindowStart + 11 + 199

\* C8 as stated: with no sample of the window below the threshold the search
\* returns the centre of the window, flagged not found, a result no found
\* edge gives.
C8_FallbackIsCenter ==
    (Searched /\ \A k \in Window : ~Below(k)) =>
        /\ printed = "Sync edge not found!"
        /\ offset = WindowStart + search_offset
        /\ \A k \in 0..(WindowLen - 1) : offset # FoundOffset(k)

\* the search has ended with an exception
SearchRaised ==
    pc = "error" /\ printed = "nothing" /\ dest_index = FieldLines * LinePixels

\* C8 amended: with no sample of the window below the threshold, and the
\* buffer reaching past the window, the search raises nothing, prints 'Sync
\* edge not found!' and returns int(200 + 263*LINE_PERIOD/50) = 334502: the
\* centre of the window plus the base offset, which is also what an edge
\* found at place 11 of the window returns.
C8_FallbackIsNominalOffset ==
    /\ (Searched /\ \A k \in Window : ~Below(k)) =>
          /\ printed = "Sync edge not found!"
          /\ offset = WindowStart + search_offset + BaseOffset
          /\ offset = 334502
          /\ offset = FoundOffset(search_offset + 1)
    /\ (dataLen >= WindowStart + WindowLen /\ acq.v_scale # 0) => ~SearchRaised

\* dips only outside the window: the search has fallen back
C8_Witness ==
    /\ pc = "assembled"
    /\ acq.dips = {0 - 1, WindowLen}
    /\ printed = "Sync edge not found!"
    /\ offset = 334502

\* nearest integer to a / b for a >= 0, b > 0
RoundDiv(a, b) == (2 * a + b) \div (2 * b)

\* C9 as stated: a line starts at field_base + round(line * LINE_PERIOD /
\* sample_period); line 5 of field 1 starts at 6556.
C9_StartRounded ==
    pc = "line_done" =>
        /\ index = offset + RoundDiv(line * LinePeriod, SamplePeriod)
        /\ (line = 5 /\ offset = 200) => index = 6556

\* C9 amended: a line starts at field_base + floor(line * LINE_PERIOD /
\* sample_period), the quotient truncated and not rounded; line 5 of field
\* 1 starts at 6555.
C9_StartTruncated ==
    pc = "line_done" =>
        /\ index = offset + ((line * LinePeriod) \div SamplePeriod)
        /\ (line = 5 /\ offset = 200) => index = 6555

\* line 5 of field 1
C9_Witness == pc = "line_done" /\ line = 5 /\ offset = BaseOffset /\ index = 6555

\* C10: every cell assigned so far holds the acquired sample at its line's
\* start plus twice its place in the line, the lines being LinePixels cells
\* each, one after the other.
C10_LinesAreStride2 ==
    pc \in {"f1_line", "f1_px", "sync", "sync_loop", "f2_line", "f2_px", "trim",
            "assembled"} =>
        /\ DOMAIN written = 0..(dest_index - 1)
        /\ pc \in {"f1_line", "f2_line"} =>
              dest_index = (IF pc = "f1_line" THEN 0 ELSE FieldLines * LinePixels)
                           + line * LinePixels
        /\ \A d \in DOMAIN written :
              LET f == d \div (FieldLines * LinePixels)
                  l == (d % (FieldLines * LinePixels)) \div LinePixels
                  x == d % LinePixels
                  start == LineStart(IF f = 0 THEN BaseOffset ELSE offset, l)
              IN  written[d] = Orig(start + 2 * x)

\* both fields are assembled, field 2 from a found edge
C10_Witness ==
    /\ pc = "assembled" /\ printed = "Sync edge found"
    /\ dest_index = 2 * FieldLines * LinePixels
    /\ Cardinality(DOMAIN written) = dest_index

\* cells of one field
FieldCells == FieldLines * LinePixels

\* C11: after the reassembly the buffer has exactly 2 x FieldLines x
\* LinePixels values (240000 in the script): line l of field 1 fills the
\* cells [l*LinePixels, (l+1)*LinePixels), and the lines of field 2 follow
\* in the same order from cell FieldLines*LinePixels (120000) on.
C11_FieldsInOrder ==
    pc = "assembled" =>
        /\ dataLen = 2 * FieldCells
        /\ \A k \in 0..(dataLen - 1) : k \in DOMAIN written
        /\ \A l \in 0..(FieldLines - 1) : \A x \in 0..(LinePixels - 1) :
              /\ DataAt(l * LinePixels + x) = Orig(LineStart(BaseOffset, l) + 2 * x)
              /\ DataAt(FieldCells + l * LinePixels + x)
                    = Orig(LineStart(offset, l) + 2 * x)

\* the buffer trimmed to the two fields, field 2 from the nominal offset
C11_Witness ==
    /\ pc = "assembled" /\ dataLen = 2 * FieldCells
    /\ printed = "Sync edge not found!"
    /\ DataAt(dataLen - 1)
          = Orig(SearchOffset + ((FieldLines - 1) * LinePeriod) \div SamplePeriod
                 + 2 * (LinePixels - 1))

\* the least buffer length the specification names for field 1
RoundedNeed ==
    BaseOffset + RoundDiv((FieldLines - 1) * LinePeriod, SamplePeriod)
        + 2 * (LinePixels - 1) + 1

\* the index the step about to be taken reads, -1 if it reads none
ReadIndex ==
    IF pc \in {"f1_px", "f2_px"} THEN index + 2 * px
    ELSE IF pc = "sync_loop" /\ si < WindowLen THEN WindowStart + si
    ELSE 0 - 1

\* C12: a step of the reassembly (or of the sync search in between) whose
\* sample index lies outside the buffer ends the script with IndexError
\* and assigns nothing; no index is negative, so none wraps around; and
\* the reassembly is never completed on a buffer shorter than base_offset
\* + round((FieldLines-1)*LINE_PERIOD/sample_period) + 2*(LinePixels-1) + 1.
C12_OutOfRangeFails ==
    /\ [][(pc \in {"f1_px", "f2_px", "sync_loop"}
            /\ ReadIndex # 0 - 1 /\ (ReadIndex < 0 \/ ReadIndex >= dataLen))
           => (pc' = "error" /\ err' = "IndexError" /\ written' = written)]_vars
    /\ [](pc \in {"f1_px", "f2_px"} => index + 2 * px >= 0)
    /\ [](pc = "trim" => dataLen >= RoundedNeed)

\* a buffer one sample short for field 1 fails at the last cell of field 1
C12_Witness ==
    /\ pc = "error" /\ err = "IndexError"
    /\ dataLen = Field1Need - 1
    /\ dest_index = FieldCells - 1
    /\ written # <<>>

\* C13: a pixel is drawn only once both fields are assembled whole and no
\* exception was raised; a script that ended with an exception (of the
\* fetch, the decoder or the reassembly), that exited or that hangs in the
\* fetch has drawn nothing.
C13_NoPartialFrame ==
    /\ (canvas # <<>> \/ set_px_calls > 0) =>
          /\ err = "none" /\ pc \in {"render", "rendered"}
          /\ dest_index = 2 * FieldCells
          /\ \A k \in 0..(2 * FieldCells - 1) : k \in DOMAIN written
    /\ pc \in {"error", "exit", "hung"} => canvas = <<>> /\ set_px_calls = 0

\* the reassembly has failed inside field 2 and nothing is drawn
C13_Witness ==
    /\ pc = "error" /\ err = "IndexError"
    /\ dest_index > FieldCells
    /\ canvas = <<>> /\ set_px_calls = 0

\* v held to lo..hi
Clamp(v, lo, hi) == IF v < lo THEN lo ELSE IF v > hi THEN hi ELSE v

\* the values of a function
RangeOf(f) == {f[q] : q \in DOMAIN f}

\* the coordinates of the raster: LinePixels wide, 2 x FieldLines high
Raster == (0..(LinePixels - 1)) \X (0..(2 * FieldLines - 1))

\* C14: min_code is the minimum of the whole assembled buffer; every pixel
\* drawn is clamp(v - min_code, 0, 255) of a value v of the buffer and every
\* value gives a pixel; so the intensities lie in 0..255 (the look-up in the
\* colour table never fails), the smallest is 0 and the largest is
\* min(max_code - min_code, 255).
C14_OffsetClamped ==
    /\ pc \in {"render", "rendered"} =>
          LET cells == 0..(dataLen - 1)
              lo == SetMin({DataAt(k) : k \in cells})
              hi == SetMax({DataAt(k) : k \in cells})
          IN  /\ val_min = lo /\ val_max = hi
              /\ \A q \in DOMAIN canvas :
                    /\ canvas[q] \in 0..255
                    /\ \E k \in cells : canvas[q] = Clamp(DataAt(k) - lo, 0, 255)
              /\ pc = "rendered" =>
                    /\ \A k \in cells :
                          \E q \in DOMAIN canvas : canvas[q] = Clamp(DataAt(k) - lo, 0, 255)
                    /\ SetMin(RangeOf(canvas)) = 0
                    /\ SetMax(RangeOf(canvas)) = Min(hi - lo, 255)
    /\ ~(pc = "error" /\ dataLen = 2 * FieldCells /\ dest_index = 2 * FieldCells)

\* a frame whose codes range over more than 255 is drawn: 0 and 255 occur
C14_Witness ==
    /\ pc = "rendered" /\ val_max - val_min > 255
    /\ 0 \in RangeOf(canvas) /\ 255 \in RangeOf(canvas)

\* C15: pixel (x, 2i) is the intensity of value x of line i of field 1 and
\* pixel (x, 2i+1) that of value x of line i of field 2; set_px is called
\* once for every pixel of the raster and for no other coordinate.
C15_Interleaved ==
    /\ pc \in {"render", "rendered"} =>
          /\ DOMAIN canvas \subseteq Raster
          /\ set_px_calls = Cardinality(DOMAIN canvas)
    /\ pc = "rendered" =>
          /\ DOMAIN canvas = Raster
          /\ set_px_calls = 2 * FieldCells
          /\ \A i \in 0..(FieldLines - 1) : \A x \in 0..(LinePixels - 1) :
                /\ canvas[<<x, 2 * i>>]
                      = Clamp(DataAt(i * LinePixels + x) - val_min, 0, 255)
                /\ canvas[<<x, 2 * i + 1>>]
                      = Clamp(DataAt(FieldCells + i * LinePixels + x) - val_min, 0, 255)

\* the whole raster is drawn, its last pixel from the last cell of field 2
C15_Witness ==
    /\ pc = "rendered" /\ Cardinality(DOMAIN canvas) = 2 * FieldCells
    /\ <<LinePixels - 1, 2 * FieldLines - 1>> \in DOMAIN canvas
    /\ set_px_calls = 2 * FieldCells

\* the indices of the search window whose acquired sample is below the
\* threshold
Edges == {k \in Window : Below(k)}

\* C16 as stated: with an edge in the window, field 2 starts at the index of
\* the edge and the lines start at the rounded multiples of the line period:
\* row 2i+1 shows the samples at edge + round(i*LINE_PERIOD/sample_period)
\* + 2x, row 2i those at base_offset + round(i*LINE_PERIOD/sample_period) + 2x.
C16_RowsFromEdgeRounded ==
    (pc = "rendered" /\ Edges # {}) =>
        \A i \in 0..(FieldLines - 1) : \A x \in 0..(LinePixels - 1) :
            /\ canvas[<<x, 2 * i + 1>>]
                  = Clamp(Orig(SetMin(Edges) + RoundDiv(i * LinePeriod, SamplePeriod)
                               + 2 * x) - val_min, 0, 255)
            /\ canvas[<<x, 2 * i>>]
                  = Clamp(Orig(BaseOffset + RoundDiv(i * LinePeriod, SamplePeriod)
                               + 2 * x) - val_min, 0, 255)

\* what search_ntsc_sync_edge returns on the acquired samples
SearchResult ==
    IF Edges # {} THEN SetMin(Edges) + BaseOffset - 1
    ELSE WindowStart + search_offset + BaseOffset

\* C16 amended: field 2 is assembled from the value the sync search returns
\* on the acquired samples, the lowest edge index k of the window + 199 (or
\* the nominal 334502); row 2i+1 shows the intensities of the acquired
\* samples at result + floor(i*LINE_PERIOD/sample_period) + 2x and row 2i
\* those at base_offset + floor(i*LINE_PERIOD/sample_period) + 2x.
C16_RowsFromSearchResult ==
    /\ pc \in {"f2_line", "f2_px", "trim", "assembled"} => offset = SearchResult
    /\ pc = "rendered" =>
          \A i \in 0..(FieldLines - 1) : \A x \in 0..(LinePixels - 1) :
              /\ canvas[<<x, 2 * i + 1>>]
                    = Clamp(Orig(SearchResult + (i * LinePeriod) \div SamplePeriod
                                 + 2 * x) - val_min, 0, 255)
              /\ canvas[<<x, 2 * i>>]
                    = Clamp(Orig(BaseOffset + (i * LinePeriod) \div SamplePeriod
                                 + 2 * x) - val_min, 0, 255)

\* a frame is drawn from an acquisition whose one edge is at place 1
C16_Witness ==
    /\ pc = "rendered" /\ printed = "Sync edge found"
    /\ Edges = {WindowStart + 1}

\* the buffer holds every sample field 2 reads from the nominal offset
EnoughForFallback == dataLen >= SearchOffset + Field1Need - BaseOffset

\* C17: after a search that found no edge the script raises nothing (the
\* buffer being long enough for field 2) and goes on to draw the whole
\* raster; field 1 holds the samples at base_offset + floor(l*LINE_PERIOD/
\* sample_period) + 2x whatever the search returned, and field 2 is read
\* from the nominal offset.
C17_FallbackNotFatal ==
    /\ (pc = "f2_line" /\ line = 0 /\ printed = "Sync edge not found!"
        /\ EnoughForFallback)
          ~> (pc = "rendered" /\ err = "none" /\ DOMAIN canvas = Raster)
    /\ []((printed = "Sync edge not found!" /\ pc = "error")
             => (err = "IndexError" /\ dataLen < SearchOffset + Field1Need - BaseOffset))
    /\ [](pc \in {"f2_line", "f2_px", "trim", "assembled"} =>
             /\ printed = "Sync edge not found!" => offset = SearchOffset
             /\ \A l \in 0..(FieldLines - 1) : \A x \in 0..(LinePixels - 1) :
                   DataAt(l * LinePixels + x)
                       = Orig(BaseOffset + (l * LinePeriod) \div SamplePeriod + 2 * x))

\* a frame is drawn after a search that found no edge
C17_Witness ==
    /\ pc = "rendered" /\ printed = "Sync edge not found!"
    /\ DOMAIN canvas = Raster /\ err = "none"

----------------------------------------------------------------------------
(* Properties of the corrections of get_waveform_num *)

\* the samples of the payload: its big-endian signed words
Raw ==
    LET p == wire.m.payload
    IN  [i \in 1..(Len(p) \div 2) |->
            LET u == p[2 * i - 1] * 256 + p[2 * i]
            IN  IF u >= 32768 THEN u - 65536 ELSE u]

\* get_waveform_num has ended, with a result or with an exception
PostEnded == api = "num" /\ pc \in {"done", "error"}

\* C18: with real_value the call returns, and element i of the result is
\* raw[i] * scale / 25 (held in 25ths: raw[i] * scale) for every decoded
\* sample, whatever memory length the header line gives.
C18_AllScaled ==
    (PostEnded /\ real_value) =>
        /\ pc = "done"
        /\ Len(data_out) = Len(Raw)
        /\ \A i \in 1..Len(Raw) : data_out[i] = Raw[i] * wire.post.scale

\* a / b rounded to the nearest integer, b > 0 (the model has no ties)
RoundSigned(a, b) == IF a >= 0 THEN RoundDiv(a, b) ELSE 0 - RoundDiv(0 - a, b)

\* C19: with pos_consider and without real_value the call returns, and
\* element i of the result is raw[i] + round(position / scale * 25), rounded
\* to the nearest integer for positions of either sign.
C19_ShiftRounded ==
    (PostEnded /\ ~real_value /\ pos_consider) =>
        /\ pc = "done"
        /\ Len(data_out) = Len(Raw)
        /\ \A i \in 1..Len(Raw) :
              data_out[i] = Raw[i] + RoundSigned(wire.post.pos * 25, wire.post.scale)

\* C20: a result is scaled or shifted, never both: with real_value it is the
\* scaled one whatever pos_consider is (the shift is never added), without
\* real_value and with pos_consider it is the shifted one, and with neither
\* it is the raw codes. Scaling and shift reach the first 'Memory Length'
\* elements.
C20_OneCorrection ==
    (api = "num" /\ pc = "done") =>
        LET h == wire.post
            scaled == [i \in 1..Len(Raw) |->
                          IF i <= h.mem THEN Raw[i] * h.scale ELSE Raw[i] * 25]
            shifted == [i \in 1..Len(Raw) |->
                          IF i <= h.mem THEN Raw[i] + TruncDiv(h.pos * 25, h.scale)
                          ELSE Raw[i]]
        IN  /\ real_value => data_out = scaled
            /\ (~real_value /\ pos_consider) => data_out = shifted
            /\ (~real_value /\ ~pos_consider) => data_out = Raw

\* both corrections asked for, a position that is not zero: scaled only
C20_Witness ==
    /\ api = "num" /\ pc = "done"
    /\ real_value /\ pos_consider
    /\ wire.post = [mem |-> 2, scale |-> 3, pos |-> 2]
    /\ Raw = <<0 - 256, 255>>
    /\ data_out = <<0 - 768, 765>>

----------------------------------------------------------------------------
(* The threshold and the window of the sync search *)

\* the search has computed its threshold
RefSet == pc = "sync_loop" \/ Searched

\* the nominal center of the window, int(263*LINE_PERIOD/50), and its half width
Center == (SyncLine * LinePeriod) \div SamplePeriod
HalfWidth == search_offset

\* the index the search reads at turn si of its loop
ReadAt == WindowStart + si

----------------------------------------------------------------------------
(* The 650000 samples asked for, and the reads against the writes in place *)

\* the indices of data a line reads, its head being in index
LineReads == {SrcIndex(index, x) : x \in 0..(VideoPixels - 1)}

\* C22: with 650000 samples in the buffer, whatever the sync search returned
\* (an edge at any place of its window, or the fallback), every index read
\* by the search, by a line of field 1 and by a line of field 2 is inside
\* the buffer.
C22_SamplesSuffice ==
    /\ \A s \in 0..(WindowLen - 1) : WindowStart + s >= 0 /\ WindowStart + s < dataLen
    /\ pc = "line_done" => \A k \in LineReads : k >= 0 /\ k < dataLen

\* the last line of field 2 after an edge at the last place of the window:
\* its last read is at index 639303
C22_Witness ==
    /\ pc = "line_done" /\ dataLen = 650000
    /\ line = VideoLines - 1 /\ offset = FoundOffset(WindowLen - 1)
    /\ SrcIndex(index, VideoPixels - 1) = 639303

\* C23: at every step of either field the index read is above the index
\* written (and so above everything written before), and the window of the
\* sync search lies above the cells [0, 120000) that field 1 has written.
C23_ReadsAheadOfWrites ==
    /\ pc = "line_done" =>
          \A x \in 0..(VideoPixels - 1) : SrcIndex(index, x) > dest_index + x
    /\ WindowStart >= VideoLines * VideoPixels

\* the last line of field 2 after the fallback: it writes from 239500 on
\* and reads from 638297 on
C23_Witness ==
    /\ pc = "line_done"
    /\ line = VideoLines - 1 /\ offset = SearchOffset
    /\ dest_index = 239500 /\ index = 638297

----------------------------------------------------------------------------
(* The length field, and the query that follows a fetch *)

\* the line readline should return to the query after the fetch
OwnReply == Take(ScaleReply, Len(ScaleReply) - 1)

\* C24: a fetch that returns has consumed the header line, '#', the length
\* field, the whole body and the terminator and nothing more, so the query
\* issued next on the connection reads its own reply line from its first
\* byte.
C24_NextQueryReadsOwnReply ==
    /\ (ch_ok /\ Sound /\ Whole /\ pc = "queried") => answer = OwnReply /\ rx = <<>>
    /\ (ch_ok /\ Sound /\ Whole) => err # "UnicodeDecodeError"

\* C25: the length field of head_d digits is read in full, over as many
\* partial reads as the transport needs, before the body length is computed
\* from it: the length is never that of a shorter prefix of the field.
C25_LengthFieldWhole ==
    (ch_ok /\ Sound /\ pc \in {"body", "decode", "post", "done", "queried"}) =>
        /\ Len(lenbuf) = head_d
        /\ lenbuf = Drop(wire.m.framing, 2)
        /\ length = Declared + 1

----------------------------------------------------------------------------
(* The header line *)

\* the places of the separator sep in s, in ascending order, between the
\* place before s and the place after it
Cuts(s, sep) ==
    LET P == {i \in 1..Len(s) : s[i] = sep}
    IN  <<0>> \o [j \in 1..Cardinality(P) |->
                     CHOOSE p \in P : Cardinality({q \in P : q < p}) = j - 1]
        \o <<Len(s) + 1>>

\* the pieces of s between its separators
Pieces(s, sep) ==
    LET c == Cuts(s, sep)
    IN  [j \in 1..(Len(c) - 1) |-> SubSeq(s, c[j] + 1, c[j + 1] - 1)]

\* the header line as it was sent, its line feed included
SentLine == wire.m.header
\* the groups of the line that have two fields or more, in order
Pairs ==
    LET g == Pieces(SentLine, SEMI)
    IN  SelectSeq([j \in 1..Len(g) |-> Pieces(g[j], COMMA)], LAMBDA f : Len(f) >= 2)

\* C26: the header line is consumed up to and including the first line feed
\* and the block is parsed from the next byte on; the dict holds exactly the
\* first fields of the groups with two fields or more, each mapped to the
\* second field of the last such group; groups of one field are skipped and
\* the fetch goes on.
C26_HeaderParsed ==
    pc # (IF api = "num" THEN "header" ELSE "start") =>
        /\ pc = "info" /\ err = "none"
        /\ rx = wire.m.framing \o wire.m.payload \o <<LF>>
        /\ api = "num" =>
              /\ DOMAIN info = {Pairs[j][1] : j \in 1..Len(Pairs)}
              /\ \A j \in 1..Len(Pairs) :
                    (\A l \in (j + 1)..Len(Pairs) : Pairs[l][1] # Pairs[j][1])
                        => info[Pairs[j][1]] = Pairs[j][2]

\* the line 'a,;a,a;' has been read: the second group of key 'a'
\* overwrites the first, and the last group, the line feed, is skipped
C26_Witness ==
    /\ api = "num" /\ pc = "info"
    /\ SentLine = <<97, COMMA, SEMI, 97, COMMA, 97, SEMI, LF>>
    /\ info = (<<97>> :> <<97>>)
    /\ rx = <<HASH, 49, 50, 0, 255, LF>>

----------------------------------------------------------------------------
(* What get_acqdata2 returns *)

\* the samples the payload holds
PayloadWords ==
    [i \in 1..(Len(wire.m.payload) \div 2) |->
        Word(wire.m.payload[2 * i - 1], wire.m.payload[2 * i])]

\* get_acqdata2 has ended, with a result or with an exception
Acq2Ended == api = "acq2" /\ pc \in {"done", "queried", "error"}

\* C27: get_acqdata2(ch, num) on a reply whose payload holds N samples
\* returns, however the stream is cut into partial reads, min(num, N)
\* values: the first min(num, N) big-endian words of the payload in order.
C27_FirstWordsReturned ==
    (Acq2Ended /\ Sound /\ Whole /\ Len(wire.m.payload) % 2 = 0) =>
        /\ pc # "error"
        /\ Len(data_out) = Min(num, Len(PayloadWords))
        /\ \A i \in 1..Len(data_out) : data_out[i] = PayloadWords[i]

\* three samples asked for and one there: the one is returned
C27_Witness ==
    /\ api = "acq2" /\ pc = "done" /\ Sound /\ Whole
    /\ num = 3 /\ wire.m.payload = <<0, 255>> /\ data_out = <<255>>

----------------------------------------------------------------------------
(* The wait for the acquisition *)

\* get_acqdata2 has returned samples to the script
Fetched == acq # <<>>

\* C28: the script goes on to the reconstruction exactly when one of its at
\* most 30 polls finds the acquisition ready, and it exits (having printed
\* 'Data not ready') exactly when all 30 polls find it not ready, without
\* having fetched or drawn anything.
C28_ExitIffNeverReady ==
    /\ pc = "exit" => ~Fetched /\ canvas = <<>> /\ poll_j = LastPoll
    /\ pc = "fetch" => ~Fetched /\ poll_j < PollLimit
    /\ (Fetched /\ err = "none") => pc # "exit"

----------------------------------------------------------------------------
(* The key hand-off *)

\* the text of a message before its first c
Before(m, c) == Take(m, FirstIndex(m, c) - 1)
\* the (key code, count) pair a whole message stands for
PairOf(m) ==
    LET count == Before(Drop(m, FirstIndex(m, COMMA)), NUL)
        c == DigitsValue(count)
    IN  <<DigitsValue(Before(m, COMMA)), IF c > 128 THEN c - 256 ELSE c>>

\* C29: under every interleaving of the key thread with get_key, each result
\* of get_key other than (0, 0) is the (key code, count) pair of one whole
\* key message the thread has read: never digits of a message still being
\* parsed, never digits of two messages.
C29_WholeMessagesOnly ==
    \A i \in 1..Len(returned) :
        \E j \in 1..Len(accepted) : returned[i] = PairOf(accepted[j])

\* the thread is not between accepting a message and closing it
ThreadResting == t_pc = "stat"

\* C30: the hand-off is a one-slot exchange: a message is accepted only
\* while key_flag is False; once get_key has returned a key the slot is
\* empty (key_code and key_cnt empty, key_flag False) until the thread
\* accepts the next message; and no message is returned twice.
C30_OneSlot ==
    /\ (t_pc = "mark") => ~key_flag
    /\ (~key_flag /\ ThreadResting) => key_code = <<>> /\ key_cnt = <<>>
    /\ Len(returned) <= Len(accepted)

====
